---- MODULE Spec2Model ----
(***************************************************************************)
(* The user-enrollment cleaning pipeline of data_transformations/models:   *)
(*   bronze/users_flagged.py   type coercion + anomaly classification      *)
(*   silver/users_stage.py     remediation and NOT NULL imputation         *)
(*   silver/anomalies_log.py   audit projection of the anomalous rows      *)
(* A table is a sequence of rows, a row is a record of columns.  A column  *)
(* value is nullable: Null is the missing value and Some(v) a present one. *)
(* A string is a sequence of one-character strings, so that trimming,      *)
(* case mapping, number and date parsing and the e-mail pattern are        *)
(* computed character by character, as the library calls compute them.     *)
(***************************************************************************)
EXTENDS Integers, Sequences, FiniteSets, TLC

VARIABLES challenge_dataset, users_flagged, users_stage, anomalies_log,
          materialized, fed_back, failed

vars == <<challenge_dataset, users_flagged, users_stage, anomalies_log,
          materialized, fed_back, failed>>

(***************************************************************************)
(* Nullable values and the three-valued (Kleene) logic of polars           *)
(* expressions.                                                            *)
(***************************************************************************)
Null == <<>>
Some(v) == <<v>>
IsNull(x) == x = Null
Get(x) == x[1]

\* Expr.is_null(): always a definite boolean.
is_null(x) == Some(IsNull(x))

\* Expr | Expr : true absorbs a null operand.
KleeneOr(a, b) ==
    IF a = Some(TRUE) \/ b = Some(TRUE) THEN Some(TRUE)
    ELSE IF IsNull(a) \/ IsNull(b) THEN Null
    ELSE Some(FALSE)

\* Expr & Expr : false absorbs a null operand.
KleeneAnd(a, b) ==
    IF a = Some(FALSE) \/ b = Some(FALSE) THEN Some(FALSE)
    ELSE IF IsNull(a) \/ IsNull(b) THEN Null
    ELSE Some(TRUE)

\* ~Expr
KleeneNot(a) == IF IsNull(a) THEN Null ELSE Some(~Get(a))

\* Bool.cast(pl.Int64)
BoolToInt(a) == IF IsNull(a) THEN Null ELSE Some(IF Get(a) THEN 1 ELSE 0)

\* Comparisons and arithmetic of small integers: null if an operand is null.
IntLt(a, b) == IF IsNull(a) \/ IsNull(b) THEN Null ELSE Some(Get(a) < Get(b))
IntEq(a, b) == IF IsNull(a) \/ IsNull(b) THEN Null ELSE Some(Get(a) = Get(b))
IntSub(a, b) == IF IsNull(a) \/ IsNull(b) THEN Null ELSE Some(Get(a) - Get(b))

(***************************************************************************)
(* Characters.                                                             *)
(***************************************************************************)
LowerChars == <<"a","b","c","d","e","f","g","h","i","j","k","l","m",
                "n","o","p","q","r","s","t","u","v","w","x","y","z">>
UpperChars == <<"A","B","C","D","E","F","G","H","I","J","K","L","M",
                "N","O","P","Q","R","S","T","U","V","W","X","Y","Z">>
DigitChars == <<"0","1","2","3","4","5","6","7","8","9">>

Range(f) == {f[i] : i \in DOMAIN f}

Lower == Range(LowerChars)
Upper == Range(UpperChars)
Digit == Range(DigitChars)
Whitespace == {" ", "\t", "\n", "\r"}

IndexOf(c, chars) == CHOOSE i \in DOMAIN chars : chars[i] = c
DigitVal(c) == IndexOf(c, DigitChars) - 1

ToLowerChar(c) == IF c \in Upper THEN LowerChars[IndexOf(c, UpperChars)] ELSE c
ToUpperChar(c) == IF c \in Lower THEN UpperChars[IndexOf(c, LowerChars)] ELSE c

(***************************************************************************)
(* String expressions (the .str namespace); a null string stays null.      *)
(***************************************************************************)
RECURSIVE LStrip(_)
LStrip(s) ==
    IF s # <<>> /\ Head(s) \in Whitespace THEN LStrip(Tail(s)) ELSE s

RECURSIVE RStrip(_)
RStrip(s) ==
    IF s # <<>> /\ s[Len(s)] \in Whitespace
    THEN RStrip(SubSeq(s, 1, Len(s) - 1)) ELSE s

\* str.strip_chars(): leading and trailing whitespace removed.
strip_chars(x) == IF IsNull(x) THEN Null ELSE Some(RStrip(LStrip(Get(x))))

\* str.to_lowercase()
to_lowercase(x) ==
    IF IsNull(x) THEN Null
    ELSE Some([i \in 1..Len(Get(x)) |-> ToLowerChar(Get(x)[i])])

\* str.to_titlecase(): the first letter of each word in upper case, the rest
\* in lower case; a word starts after any non-alphanumeric character.
to_titlecase(x) ==
    IF IsNull(x) THEN Null
    ELSE LET s == Get(x)
             AlNum == Lower \cup Upper \cup Digit
         IN Some([i \in 1..Len(s) |->
                    IF i = 1 \/ s[i - 1] \notin AlNum
                    THEN ToUpperChar(s[i]) ELSE ToLowerChar(s[i])])

\* str.len_chars()
len_chars(x) == IF IsNull(x) THEN Null ELSE Some(Len(Get(x)))

\* col == "literal"
StrEq(x, lit) == IF IsNull(x) THEN Null ELSE Some(Get(x) = lit)

(***************************************************************************)
(* Integers.  A 64-bit phone number does not fit the model checker's       *)
(* machine integers, so an integer column holds a decimal numeral:         *)
(* [neg, mag] with mag the digits of the magnitude, most significant       *)
(* first, without leading zeros (zero is the empty magnitude).             *)
(***************************************************************************)
RECURSIVE DropZeros(_)
DropZeros(ds) ==
    IF ds # <<>> /\ Head(ds) = 0 THEN DropZeros(Tail(ds)) ELSE ds

Dec(neg, ds) ==
    LET m == DropZeros(ds) IN [neg |-> neg /\ m # <<>>, mag |-> m]

\* Magnitudes compared as numbers: by length, then digit by digit.
RECURSIVE MagLess(_, _)
MagLess(a, b) ==
    IF Len(a) # Len(b) THEN Len(a) < Len(b)
    ELSE IF a = <<>> THEN FALSE
    ELSE IF Head(a) # Head(b) THEN Head(a) < Head(b)
    ELSE MagLess(Tail(a), Tail(b))

DecLess(a, b) ==
    IF a.neg /\ ~b.neg THEN TRUE
    ELSE IF ~a.neg /\ b.neg THEN FALSE
    ELSE IF a.neg THEN MagLess(b.mag, a.mag)
    ELSE MagLess(a.mag, b.mag)

\* 10**k
Pow10(k) == Dec(FALSE, <<1>> \o [i \in 1..k |-> 0])

\* A small natural number as a numeral.
RECURSIVE NatDigits(_)
NatDigits(n) == IF n = 0 THEN <<>> ELSE Append(NatDigits(n \div 10), n % 10)

DecOfNat(n) == Dec(FALSE, NatDigits(n))

\* The bounds of the integer column types.
Int32Max == Dec(FALSE, <<2,1,4,7,4,8,3,6,4,7>>)
Int32Min == Dec(TRUE, <<2,1,4,7,4,8,3,6,4,8>>)
Int64Max == Dec(FALSE, <<9,2,2,3,3,7,2,0,3,6,8,5,4,7,7,5,8,0,7>>)
Int64Min == Dec(TRUE, <<9,2,2,3,3,7,2,0,3,6,8,5,4,7,7,5,8,0,8>>)

\* The integer a string spells: an optional "-" and one or more digits,
\* nothing else; Null for any other string.
ParseInteger(s) ==
    LET neg == s # <<>> /\ Head(s) = "-"
        body == IF neg THEN Tail(s) ELSE s
    IN IF body # <<>> /\ \A i \in 1..Len(body) : body[i] \in Digit
       THEN Some(Dec(neg, [i \in 1..Len(body) |-> DigitVal(body[i])]))
       ELSE Null

\* cast(<integer type>, strict=False): a string that spells no integer, or
\* one out of the type's range, becomes null instead of raising.
CastInt(x, lo, hi) ==
    IF IsNull(x) THEN Null
    ELSE LET v == ParseInteger(Get(x))
         IN IF IsNull(v) \/ DecLess(Get(v), lo) \/ DecLess(hi, Get(v))
            THEN Null ELSE v

CastInt32(x) == CastInt(x, Int32Min, Int32Max)
CastInt64(x) == CastInt(x, Int64Min, Int64Max)

\* (col / 10**k).cast(pl.Int64): the quotient truncated toward zero, which
\* drops the last k digits.  (The float quotient is exact below 2**53; above
\* it the value is far outside the ten-digit range the callers test for.)
TruncDivPow10(x, k) ==
    IF IsNull(x) THEN Null
    ELSE LET m == Get(x).mag
         IN Some(Dec(Get(x).neg, SubSeq(m, 1, Len(m) - k)))

DecLt(x, c) == IF IsNull(x) THEN Null ELSE Some(DecLess(Get(x), c))
DecGe(x, c) == IF IsNull(x) THEN Null ELSE Some(~DecLess(Get(x), c))
DecEq(x, c) == IF IsNull(x) THEN Null ELSE Some(Get(x) = c)

(***************************************************************************)
(* Dates.  str.strptime(<type>, format="%m/%d/%Y", strict=False): month,   *)
(* day and year as decimal fields separated by "/", nothing before or      *)
(* after; the fields must name a day of the calendar.  Any other string    *)
(* becomes null.                                                           *)
(***************************************************************************)
IsLeap(y) == (y % 4 = 0 /\ y % 100 # 0) \/ y % 400 = 0

DaysInMonth(y, m) ==
    IF m = 2 THEN (IF IsLeap(y) THEN 29 ELSE 28)
    ELSE IF m \in {4, 6, 9, 11} THEN 30 ELSE 31

\* The number of leading digits of s, at most max of them.
RECURSIVE DigitRun(_, _)
DigitRun(s, max) ==
    IF max > 0 /\ s # <<>> /\ Head(s) \in Digit
    THEN 1 + DigitRun(Tail(s), max - 1) ELSE 0

RECURSIVE NatOf(_)
NatOf(ds) ==
    IF ds = <<>> THEN 0
    ELSE 10 * NatOf(SubSeq(ds, 1, Len(ds) - 1)) + DigitVal(ds[Len(ds)])

Drop(s, n) == SubSeq(s, n + 1, Len(s))

\* "%m/%d/%Y" read left to right: each numeric field takes the digits it
\* finds, up to its width, and the literal "/" must follow.
ParseMDY(s) ==
    LET mw == DigitRun(s, 2)
        s1 == Drop(s, mw)
        dw == DigitRun(Drop(s1, 1), 2)
        s2 == Drop(Drop(s1, 1), dw)
        yw == DigitRun(Drop(s2, 1), 4)
        s3 == Drop(Drop(s2, 1), yw)
        m == NatOf(SubSeq(s, 1, mw))
        d == NatOf(SubSeq(Drop(s1, 1), 1, dw))
        y == NatOf(SubSeq(Drop(s2, 1), 1, yw))
    IN IF /\ mw > 0 /\ s1 # <<>> /\ Head(s1) = "/"
          /\ dw > 0 /\ s2 # <<>> /\ Head(s2) = "/"
          /\ yw > 0 /\ s3 = <<>>
          /\ m \in 1..12 /\ d \in 1..DaysInMonth(y, m)
       THEN Some([year |-> y, month |-> m, day |-> d])
       ELSE Null

\* str.strptime(pl.Date, format="%m/%d/%Y", strict=False)
strptime_date(x) == IF IsNull(x) THEN Null ELSE ParseMDY(Get(x))

\* str.strptime(pl.Datetime, format="%m/%d/%Y", strict=False): the format
\* holds no time of day, the date is taken at midnight.
strptime_datetime(x) ==
    IF IsNull(x) \/ IsNull(ParseMDY(Get(x))) THEN Null
    ELSE LET d == Get(ParseMDY(Get(x)))
         IN Some([year |-> d.year, month |-> d.month, day |-> d.day,
                  second |-> 0])

\* dt.year(), dt.month(), dt.day()
dt_year(x) == IF IsNull(x) THEN Null ELSE Some(Get(x).year)
dt_month(x) == IF IsNull(x) THEN Null ELSE Some(Get(x).month)
dt_day(x) == IF IsNull(x) THEN Null ELSE Some(Get(x).day)

(***************************************************************************)
(* Regular expressions.  A pattern is a tree: a character class, a         *)
(* concatenation, an alternation or a repetition.  Ends(r, s, i) is the    *)
(* set of positions at which a match of r that starts at position i of s   *)
(* can end (the position after its last character).                        *)
(***************************************************************************)
Chr(S) == [kind |-> "class", chars |-> S]
Cat(rs) == [kind |-> "cat", parts |-> rs]
Alt(rs) == [kind |-> "alt", parts |-> rs]
Star(r) == [kind |-> "star", part |-> r]
Plus(r) == Cat(<<r, Star(r)>>)
Opt(r) == Alt(<<r, Cat(<<>>)>>)

RECURSIVE Ends(_, _, _), CatEnds(_, _, _, _), StarEnds(_, _, _, _)
Ends(r, s, i) ==
    CASE r.kind = "class" ->
            IF i <= Len(s) /\ s[i] \in r.chars THEN {i + 1} ELSE {}
      [] r.kind = "cat" -> CatEnds(r.parts, 1, s, {i})
      [] r.kind = "alt" -> UNION {Ends(r.parts[n], s, i) : n \in DOMAIN r.parts}
      [] r.kind = "star" -> StarEnds(r.part, s, {i}, {i})

\* The parts from the n-th on, started at any position of `from`.
CatEnds(parts, n, s, from) ==
    IF n > Len(parts) \/ from = {} THEN from
    ELSE CatEnds(parts, n + 1, s, UNION {Ends(parts[n], s, p) : p \in from})

\* Zero or more repetitions: the positions reached so far, and the ones
\* reached by the last repetition.
StarEnds(r, s, seen, last) ==
    IF last = {} THEN seen
    ELSE LET more == UNION {Ends(r, s, p) : p \in last} \ seen
         IN StarEnds(r, s, seen \cup more, more)

\* Some substring of the string is a match of the pattern.
SearchMatch(r, s) == \E i \in 1..(Len(s) + 1) : Ends(r, s, i) # {}

(***************************************************************************)
(* EMAIL_REGEX.  The classes list the printable ASCII characters of the    *)
(* source's classes; the control characters some of them also hold, and   *)
(* the backquote, are left out.                                            *)
(***************************************************************************)
Printable ==
    Lower \cup Upper \cup Digit \cup
    {" ", "!", "\"", "#", "$", "%", "&", "'", "(", ")", "*", "+", ",", "-",
     ".", "/", ":", ";", "<", "=", ">", "?", "@", "[", "\\", "]", "^", "_",
     "{", "|", "}", "~"}

\* [a-z0-9!#$%&'*+\x2f=?^_\x60\x7b-\x7d~\x2d]
AText ==
    Lower \cup Digit \cup
    {"!", "#", "$", "%", "&", "'", "*", "+", "/", "=", "?", "^", "_",
     "{", "|", "}", "~", "-"}

\* [\x01-\x08\x0b\x0c\x0e-\x1f\x21\x23-\x5b\x5d-\x7f]
QText == Printable \ {" ", "\"", "\\"}

\* [\x01-\x09\x0b\x0c\x0e-\x7f]
QPair == Printable \cup {"\t"}

\* [\x01-\x08\x0b\x0c\x0e-\x1f\x21-\x5a\x53-\x7f]
LiteralText == Printable \ {" "}

AlNum == Lower \cup Digit
AlNumHyphen == AlNum \cup {"-"}

Ch(c) == Chr({c})
DigitsFromTo(a, b) == Chr({DigitChars[n + 1] : n \in a..b})

\* [a-z0-9](?:[a-z0-9\x2d]*[a-z0-9])?
DomainLabel == Cat(<<Chr(AlNum), Opt(Cat(<<Star(Chr(AlNumHyphen)), Chr(AlNum)>>))>>)

\* (2(5[0-5]|[0-4][0-9])|1[0-9][0-9]|[1-9]?[0-9])
Octet ==
    Alt(<<Cat(<<Ch("2"), Alt(<<Cat(<<Ch("5"), DigitsFromTo(0, 5)>>),
                               Cat(<<DigitsFromTo(0, 4), DigitsFromTo(0, 9)>>)>>)>>),
          Cat(<<Ch("1"), DigitsFromTo(0, 9), DigitsFromTo(0, 9)>>),
          Cat(<<Opt(DigitsFromTo(1, 9)), DigitsFromTo(0, 9)>>)>>)

\* local part: dot-atom | quoted string
LocalPart ==
    Alt(<<Cat(<<Plus(Chr(AText)), Star(Cat(<<Ch("."), Plus(Chr(AText))>>))>>),
          Cat(<<Ch("\""),
                Star(Alt(<<Chr(QText), Cat(<<Ch("\\"), Chr(QPair)>>)>>)),
                Ch("\"")>>)>>)

\* domain: dotted labels | bracketed address literal
DomainPart ==
    Alt(<<Cat(<<Plus(Cat(<<DomainLabel, Ch(".")>>)), DomainLabel>>),
          Cat(<<Ch("["),
                Cat(<<Octet, Ch(".")>>), Cat(<<Octet, Ch(".")>>),
                Cat(<<Octet, Ch(".")>>),
                Alt(<<Octet,
                      Cat(<<Star(Chr(AlNumHyphen)), Chr(AlNum), Ch(":"),
                            Plus(Alt(<<Chr(LiteralText),
                                       Cat(<<Ch("\\"), Chr(QPair)>>)>>))>>)>>),
                Ch("]")>>)>>)

EMAIL_REGEX == Cat(<<LocalPart, Ch("@"), DomainPart>>)

\* str.contains(pattern, literal=False): the pattern is searched for in the
\* string, it need not span it.
str_contains(x, pattern) ==
    IF IsNull(x) THEN Null ELSE Some(SearchMatch(pattern, Get(x)))

(***************************************************************************)
(* bronze/users_flagged.py: the anomaly predicates.  Each returns the      *)
(* ANOMALY flag of one row as a nullable boolean.                          *)
(***************************************************************************)
\* A variant that subtracts the years only, whatever the month and day.
is_18yo_by_year(birth_date_dt, created_at_dt) ==
    LET age_at_creation == IntSub(dt_year(created_at_dt), dt_year(birth_date_dt))
    IN KleeneOr(KleeneOr(is_null(birth_date_dt), is_null(created_at_dt)),
                IntLt(age_at_creation, Some(18)))

is_18yo(birth_date_dt, created_at_dt) ==
    LET age_at_creation ==
            IntSub(IntSub(dt_year(created_at_dt), dt_year(birth_date_dt)),
                   BoolToInt(
                     KleeneOr(IntLt(dt_month(created_at_dt), dt_month(birth_date_dt)),
                              KleeneAnd(IntEq(dt_month(created_at_dt),
                                              dt_month(birth_date_dt)),
                                        IntLt(dt_day(created_at_dt),
                                              dt_day(birth_date_dt))))))
    IN KleeneOr(KleeneOr(is_null(birth_date_dt), is_null(created_at_dt)),
                IntLt(age_at_creation, Some(18)))

\* A variant that tests the 555 prefix only.
is_invalid_phone_math_no_911(phone_int) ==
    LET is_missing_or_dirty == is_null(phone_int)
        is_not_ten_digits ==
            KleeneOr(DecLt(phone_int, Pow10(9)), DecGe(phone_int, Pow10(10)))
        first_digit == TruncDivPow10(phone_int, 9)
        is_invalid_start ==
            KleeneOr(DecEq(first_digit, DecOfNat(0)), DecEq(first_digit, DecOfNat(1)))
        first_three_digits == TruncDivPow10(phone_int, 7)
        is_reserved_prefix_3 == DecEq(first_three_digits, DecOfNat(555))
    IN KleeneOr(KleeneOr(KleeneOr(is_missing_or_dirty, is_not_ten_digits),
                         is_invalid_start),
                is_reserved_prefix_3)

is_invalid_phone_math(phone_int) ==
    LET is_missing_or_dirty == is_null(phone_int)
        is_not_ten_digits ==
            KleeneOr(DecLt(phone_int, Pow10(9)), DecGe(phone_int, Pow10(10)))
        first_digit == TruncDivPow10(phone_int, 9)
        is_invalid_start ==
            KleeneOr(DecEq(first_digit, DecOfNat(0)), DecEq(first_digit, DecOfNat(1)))
        first_three_digits == TruncDivPow10(phone_int, 7)
        is_reserved_prefix_3 ==
            KleeneOr(DecEq(first_three_digits, DecOfNat(555)),
                     DecEq(first_three_digits, DecOfNat(911)))
    IN KleeneOr(KleeneOr(KleeneOr(is_missing_or_dirty, is_not_ten_digits),
                         is_invalid_start),
                is_reserved_prefix_3)

is_invalid_email(email_stripped) ==
    KleeneOr(KleeneOr(is_null(email_stripped),
                      IntEq(len_chars(email_stripped), Some(0))),
             KleeneNot(str_contains(email_stripped, EMAIL_REGEX)))

is_invalid_identifiers(email_stripped, phone_int, birth_date_dt) ==
    LET is_bd_invalid == is_null(birth_date_dt)
        is_email_invalid == is_invalid_email(email_stripped)
        is_phone_invalid == is_invalid_phone_math(phone_int)
    IN KleeneOr(KleeneOr(is_bd_invalid, is_email_invalid), is_phone_invalid)

\* A variant without the null test.
is_invalid_status_unguarded(status_lower) ==
    IntEq(len_chars(status_lower), Some(0))

is_invalid_status(status_lower) ==
    KleeneOr(is_null(status_lower), IntEq(len_chars(status_lower), Some(0)))

(***************************************************************************)
(* bronze/users_flagged.py: model().  The raw columns are kept; the typed  *)
(* columns and the flags are added.                                        *)
(***************************************************************************)
TypedRow(r) ==
    r @@ [id_int |-> CastInt32(r.id),
          phone_int |-> CastInt64(r.phone),
          birth_date_dt |-> strptime_date(r.birth_date),
          created_at_dt |-> strptime_datetime(r.created_at),
          status_lower |-> to_lowercase(r.status),
          email_stripped |-> strip_chars(r.email)]

FlaggedRow(t) ==
    LET f == t @@ [is_age_anomaly |-> is_18yo(t.birth_date_dt, t.created_at_dt),
                   is_identifier_anomaly |->
                       is_invalid_identifiers(t.email_stripped, t.phone_int,
                                              t.birth_date_dt),
                   is_status_anomaly |-> is_invalid_status(t.status_lower)]
    IN f @@ [is_anomalous |->
               KleeneOr(KleeneOr(f.is_age_anomaly, f.is_identifier_anomaly),
                        f.is_status_anomaly)]

UsersFlaggedModel(df) == [i \in 1..Len(df) |-> FlaggedRow(TypedRow(df[i]))]

(***************************************************************************)
(* silver/users_stage.py: model().                                         *)
(***************************************************************************)
\* pl.when(cond).then(a).otherwise(b): a where cond is true, b where it is
\* false or null.
When(cond, a, b) == IF cond = Some(TRUE) THEN a ELSE b

\* col == <boolean literal>
BoolEq(x, lit) == IF IsNull(x) THEN Null ELSE Some(Get(x) = lit)

Active == <<"a", "c", "t", "i", "v", "e">>
Cancelled == <<"c", "a", "n", "c", "e", "l", "l", "e", "d">>
Unknown == <<"U", "n", "k", "n", "o", "w", "n">>

\* lit(-999999999).cast(pl.Int64)
PhoneSentinel == Dec(TRUE, <<9, 9, 9, 9, 9, 9, 9, 9, 9>>)

\* A variant that cancels the anomalous rows and keeps the status of the rest.
final_status_kept(f) ==
    When(BoolEq(f.is_anomalous, TRUE), Some(Cancelled), f.status_lower)

final_status(f) ==
    When(KleeneAnd(BoolEq(f.is_anomalous, FALSE), StrEq(f.status_lower, Active)),
         Some(Active), Some(Cancelled))

name_imputed(name) ==
    LET cleaned == to_titlecase(strip_chars(name))
    IN When(KleeneOr(is_null(cleaned), IntEq(len_chars(cleaned), Some(0))),
            Some(Unknown), cleaned)

phone_imputed(phone_int) ==
    When(is_null(phone_int), Some(PhoneSentinel), phone_int)

UsersStageRow(f) ==
    [id |-> f.id_int,
     first_name |-> name_imputed(f.first_name),
     last_name |-> name_imputed(f.last_name),
     email |-> f.email_stripped,
     phone |-> phone_imputed(f.phone_int),
     status |-> final_status(f),
     birth_date |-> f.birth_date_dt,
     created_at |-> f.created_at_dt]

\* A variant that deletes the anomalous rows.
IsCleanRow(f) == f.is_anomalous = Some(FALSE)
UsersStageModel_deleting(df) ==
    LET kept == SelectSeq(df, IsCleanRow)
    IN [i \in 1..Len(kept) |-> UsersStageRow(kept[i])]

UsersStageModel(df) == [i \in 1..Len(df) |-> UsersStageRow(df[i])]

(***************************************************************************)
(* silver/anomalies_log.py: model().                                       *)
(***************************************************************************)
RemediationAction == "Status changed to 'cancelled' due to validation failure"

\* A variant with the filter inverted.
IsAnomalousRow_inverted(f) == BoolEq(f.is_anomalous, FALSE) = Some(TRUE)

\* df.filter(col("is_anomalous") == True) keeps the rows where the
\* predicate is true, in order.
IsAnomalousRow(f) == BoolEq(f.is_anomalous, TRUE) = Some(TRUE)

AuditEntry(f) ==
    [anomalous_user_id |-> f.id_int,
     original_creation_date |-> f.created_at_dt,
     remediation_action |-> RemediationAction,
     is_age_anomaly |-> f.is_age_anomaly,
     is_identifier_anomaly |-> f.is_identifier_anomaly,
     is_status_anomaly |-> f.is_status_anomaly,
     raw_email |-> f.email,
     raw_phone |-> f.phone]

AnomaliesLogModel(df) ==
    LET anomalous_records == SelectSeq(df, IsAnomalousRow)
    IN [i \in 1..Len(anomalous_records) |-> AuditEntry(anomalous_records[i])]

(***************************************************************************)
(* A second run over the cleaned table.  users_stage holds typed values;   *)
(* the coercion stage reads strings.  The table is handed back either as   *)
(* it is (the .str expressions reject a Date column and the run aborts),   *)
(* or with every value written as text: integers in decimal, dates in the  *)
(* ISO form of the typed value or in the month/day/year form.              *)
(***************************************************************************)
FormatInt(v) ==
    IF v.mag = <<>> THEN <<"0">>
    ELSE (IF v.neg THEN <<"-">> ELSE <<>>)
         \o [i \in 1..Len(v.mag) |-> DigitChars[v.mag[i] + 1]]

\* n written with at least w digits, zero-padded.
RECURSIVE Padded(_, _)
Padded(n, w) ==
    IF w <= 0 /\ n = 0 THEN <<>>
    ELSE Append(Padded(n \div 10, w - 1), DigitChars[(n % 10) + 1])

FormatMDY(d) ==
    Padded(d.month, 2) \o <<"/">> \o Padded(d.day, 2) \o <<"/">> \o Padded(d.year, 4)

FormatISO(d) ==
    Padded(d.year, 4) \o <<"-">> \o Padded(d.month, 2) \o <<"-">> \o Padded(d.day, 2)

FeedForms == {"iso", "mdy", "typed"}

DateText(x, form) ==
    IF IsNull(x) THEN Null
    ELSE IF form = "mdy" THEN Some(FormatMDY(Get(x)))
    ELSE Some(FormatISO(Get(x)))

DatetimeText(x, form) ==
    IF IsNull(x) THEN Null
    ELSE IF form = "mdy" THEN Some(FormatMDY(Get(x)))
    ELSE Some(FormatISO(Get(x)) \o <<" ", "0", "0", ":", "0", "0", ":", "0", "0">>)

IntText(x) == IF IsNull(x) THEN Null ELSE Some(FormatInt(Get(x)))

CleanedAsRaw(c, form) ==
    [id |-> IntText(c.id),
     first_name |-> c.first_name,
     last_name |-> c.last_name,
     email |-> c.email,
     phone |-> IntText(c.phone),
     birth_date |-> DateText(c.birth_date, form),
     created_at |-> DatetimeText(c.created_at, form),
     status |-> c.status]

(***************************************************************************)
(* The pipeline: users_flagged reads challenge_dataset; users_stage and    *)
(* anomalies_log each read users_flagged, in either order; every model is  *)
(* materialized once per run.                                              *)
(***************************************************************************)
RunUsersFlagged ==
    /\ ~failed
    /\ "users_flagged" \notin materialized
    /\ users_flagged' = UsersFlaggedModel(challenge_dataset)
    /\ materialized' = materialized \cup {"users_flagged"}
    /\ UNCHANGED <<challenge_dataset, users_stage, anomalies_log, fed_back, failed>>

RunUsersStage ==
    /\ "users_flagged" \in materialized
    /\ "users_stage" \notin materialized
    /\ users_stage' = UsersStageModel(users_flagged)
    /\ materialized' = materialized \cup {"users_stage"}
    /\ UNCHANGED <<challenge_dataset, users_flagged, anomalies_log, fed_back, failed>>

RunAnomaliesLog ==
    /\ "users_flagged" \in materialized
    /\ "anomalies_log" \notin materialized
    /\ anomalies_log' = AnomaliesLogModel(users_flagged)
    /\ materialized' = materialized \cup {"anomalies_log"}
    /\ UNCHANGED <<challenge_dataset, users_flagged, users_stage, fed_back, failed>>

Rerun ==
    /\ "users_stage" \in materialized
    /\ \E form \in FeedForms :
          /\ failed' = (form = "typed")
          /\ challenge_dataset' =
                IF form = "typed" THEN challenge_dataset
                ELSE [i \in 1..Len(users_stage) |-> CleanedAsRaw(users_stage[i], form)]
    /\ fed_back' = users_stage
    /\ materialized' = {}
    /\ users_flagged' = <<>>
    /\ users_stage' = <<>>
    /\ anomalies_log' = <<>>

Next == RunUsersFlagged \/ RunUsersStage \/ RunAnomaliesLog \/ Rerun

InitWith(tables) ==
    /\ challenge_dataset \in tables
    /\ users_flagged = <<>>
    /\ users_stage = <<>>
    /\ anomalies_log = <<>>
    /\ materialized = {}
    /\ fed_back = <<>>
    /\ failed = FALSE

(***************************************************************************)
(* Inputs.                                                                 *)
(***************************************************************************)
RawRow(id, first_name, last_name, email, phone, birth_date, created_at, status) ==
    [id |-> id, first_name |-> first_name, last_name |-> last_name,
     email |-> email, phone |-> phone, birth_date |-> birth_date,
     created_at |-> created_at, status |-> status]

\* A row that passes every check.
GoodRow ==
    RawRow(Some(<<"1">>), Some(<<" ", "b", "o", "b", " ">>), Some(<<"L", "E", "E">>), Some(<<" ", "a", "@", "b", ".", "c", " ">>), Some(<<"2", "1", "2", "5", "5", "5", "0", "1", "0", "0">>), Some(<<"0", "6", "/", "1", "5", "/", "1", "9", "9", "0">>), Some(<<"0", "1", "/", "0", "2", "/", "2", "0", "2", "0">>), Some(<<"A", "c", "t", "i", "v", "e">>))

SampleIds == {Some(<<"1">>), Some(<<"2">>), Some(<<"x", "1">>), Null}
SampleNames == {Some(<<" ", "b", "o", "b", " ">>), Some(<<" ", " ">>), Null}
SampleEmails == {Some(<<" ", "a", "@", "b", ".", "c", " ">>), Some(<<"a", ".", "b">>), Some(<<"A", " ", "a", "@", "b", ".", "c">>), Null}
SamplePhones == {Some(<<"2", "1", "2", "5", "5", "5", "0", "1", "0", "0">>), Some(<<"5", "5", "5", "1", "2", "3", "4", "5", "6", "7">>), Some(<<"n", "/", "a">>), Null}
SampleBirthDates == {Some(<<"0", "6", "/", "1", "5", "/", "1", "9", "9", "0">>), Some(<<"0", "6", "/", "1", "5", "/", "2", "0", "1", "0">>), Some(<<"1", "9", "9", "0", "-", "0", "6", "-", "1", "5">>), Null}
SampleCreatedAts == {Some(<<"0", "1", "/", "0", "2", "/", "2", "0", "2", "0">>), Some(<<"2", "0", "2", "0">>), Null}
SampleStatuses == {Some(<<"A", "c", "t", "i", "v", "e">>), Some(<<"a", "c", "t", "i", "v", "e">>), Some(<<"p", "e", "n", "d", "i", "n", "g">>), Some(<<>>), Null}

\* The good row with one column replaced, for every sample of every column.
SampleRows ==
    {[GoodRow EXCEPT !.id = v] : v \in SampleIds}
    \cup {[GoodRow EXCEPT !.first_name = v] : v \in SampleNames}
    \cup {[GoodRow EXCEPT !.email = v] : v \in SampleEmails}
    \cup {[GoodRow EXCEPT !.phone = v] : v \in SamplePhones}
    \cup {[GoodRow EXCEPT !.birth_date = v] : v \in SampleBirthDates}
    \cup {[GoodRow EXCEPT !.created_at = v] : v \in SampleCreatedAts}
    \cup {[GoodRow EXCEPT !.status = v] : v \in SampleStatuses}

MaxRows == 2

Tables(rows, n) == UNION {[1..k -> rows] : k \in 0..n}

Init == InitWith(Tables(SampleRows, MaxRows))

Spec == Init /\ [][Next]_vars

(***************************************************************************)
(* Further input families, one row per table: every combination of the     *)
(* column samples; creation dates around the 18th birthday; phone numbers  *)
(* by their leading digits; e-mail strings over a small alphabet.          *)
(***************************************************************************)
Strings(chars, n) == UNION {[1..k -> chars] : k \in 0..n}

OneRowTables(rows) == {<<r>> : r \in rows}

ProductRows ==
    {RawRow(i, fn, GoodRow.last_name, e, p, b, c, st) :
        i \in {GoodRow.id, Null}, fn \in {GoodRow.first_name, Null},
        e \in SampleEmails, p \in SamplePhones, b \in SampleBirthDates,
        c \in SampleCreatedAts, st \in SampleStatuses}

InitRecord == InitWith(OneRowTables(ProductRows))

SpecRecord == InitRecord /\ [][Next]_vars

\* Creation dates within Span years, months and days of 06/15/2018, and
\* around the end of February; some of the strings name no calendar day.
Span == 1

AgeBirthDates == {Some(<<"0", "6", "/", "1", "5", "/", "2", "0", "0", "0">>), Some(<<"0", "2", "/", "2", "9", "/", "2", "0", "0", "0">>), Some(<<"2", "0", "0", "0", "-", "0", "6", "-", "1", "5">>), Null}

AgeCreatedAts ==
    {Some(FormatMDY([year |-> y, month |-> m, day |-> d])) :
        y \in (2018 - Span)..(2018 + Span),
        m \in {2} \cup ((6 - Span)..(6 + Span)),
        d \in {28, 29} \cup ((15 - Span)..(15 + Span))}
    \cup {Some(<<"2", "0", "1", "8", "-", "0", "6", "-", "1", "5">>), Null}

AgeRows ==
    {[GoodRow EXCEPT !.birth_date = b, !.created_at = c] :
        b \in AgeBirthDates, c \in AgeCreatedAts}

InitAge == InitWith(OneRowTables(AgeRows))

SpecAge == InitAge /\ [][Next]_vars

\* Phone strings: up to MaxPrefixLen leading digits before seven more, each
\* also with a minus sign; the documented examples; strings that spell no
\* integer.
MaxPrefixLen == 4

PhoneLeadingDigits == {"0", "1", "5", "9"}

PhoneTails == {<<"1", "2", "3", "4", "5", "6", "7">>, <<"9", "9", "9", "9", "9", "9", "9">>}

PhoneDigitStrings ==
    {a \o t : a \in Strings(PhoneLeadingDigits, MaxPrefixLen), t \in PhoneTails}
    \cup {<<"9", "9", "9", "9", "9", "9", "9", "9", "9", "9">>, <<"1", "5", "5", "5", "1", "2", "3", "4", "5", "6", "7">>, <<"5", "5", "5", "1", "2", "3", "4", "5", "6", "7">>, <<"0", "1", "2", "3", "4", "5", "6", "7", "8", "9">>}

PhoneStrings ==
    {Some(d) : d \in PhoneDigitStrings}
    \cup {Some(<<"-">> \o d) : d \in PhoneDigitStrings}
    \cup {Some(<<"n", "/", "a">>), Some(<<"2", "1", "2", "-", "5", "5", "5", "-", "0", "1", "0", "0">>), Some(<<>>), Null}

PhoneRows == {[GoodRow EXCEPT !.phone = ph] : ph \in PhoneStrings}

InitPhone == InitWith(OneRowTables(PhoneRows))

SpecPhone == InitPhone /\ [][Next]_vars

\* E-mail strings of up to MaxEmailLen characters.
MaxEmailLen == 6

EmailChars == {"a", "A", "@", ".", " "}

EmailRows ==
    {[GoodRow EXCEPT !.email = Some(e)] : e \in Strings(EmailChars, MaxEmailLen)}
    \cup {[GoodRow EXCEPT !.email = Null]}

InitEmail == InitWith(OneRowTables(EmailRows))

SpecEmail == InitEmail /\ [][Next]_vars

(***************************************************************************)
(* Properties.                                                             *)
(***************************************************************************)
Done(table) == table \in materialized

Definite(flag) == flag \in {Some(TRUE), Some(FALSE)}

CleanedColumns ==
    {"id", "first_name", "last_name", "email", "phone", "status",
     "birth_date", "created_at"}

\* C1: every column of every cleaned row holds a value, whatever the raw
\* row was.
C1_NoMissingField ==
    Done("users_stage") =>
        \A i \in 1..Len(users_stage) :
            \A c \in CleanedColumns : ~IsNull(users_stage[i][c])

C3_OverallFlagIsDisjunction ==
    Done("users_flagged") =>
        \A i \in 1..Len(users_flagged) :
            LET f == users_flagged[i]
            IN /\ Definite(f.is_age_anomaly)
               /\ Definite(f.is_identifier_anomaly)
               /\ Definite(f.is_status_anomaly)
               /\ f.is_anomalous =
                     Some(\/ Get(f.is_age_anomaly)
                          \/ Get(f.is_identifier_anomaly)
                          \/ Get(f.is_status_anomaly))

\* C3 witness: a row with birth date, creation date, phone, e-mail and
\* status all missing has been classified.
C3_Witness ==
    /\ Done("users_flagged")
    /\ \E i \in 1..Len(users_flagged) :
          LET f == users_flagged[i]
          IN /\ IsNull(f.birth_date) /\ IsNull(f.created_at) /\ IsNull(f.phone)
             /\ IsNull(f.email) /\ IsNull(f.status)
             /\ f.is_anomalous = Some(TRUE)

\* The cleaned row c is the row made from the raw row r: its passed-through
\* columns are r's, coerced.
MadeFrom(c, r) ==
    /\ c.id = CastInt32(r.id)
    /\ c.email = strip_chars(r.email)
    /\ c.birth_date = strptime_date(r.birth_date)
    /\ c.created_at = strptime_datetime(r.created_at)
    /\ ~IsNull(CastInt64(r.phone)) => c.phone = CastInt64(r.phone)

\* C4: the cleaned table has one row per input row, in input order; an
\* anomalous row is kept, with status "cancelled".
C4_OneRowPerInput ==
    Done("users_stage") =>
        /\ Len(users_stage) = Len(challenge_dataset)
        /\ \A i \in 1..Len(challenge_dataset) :
              /\ MadeFrom(users_stage[i], challenge_dataset[i])
              /\ users_flagged[i].is_anomalous = Some(TRUE)
                    => users_stage[i].status = Some(Cancelled)

\* C4 witness: an anomalous row followed by a clean one, both cleaned.
C4_Witness ==
    /\ Done("users_stage")
    /\ Len(challenge_dataset) = 2
    /\ Len(users_stage) = 2
    /\ users_flagged[1].is_anomalous = Some(TRUE)
    /\ users_flagged[2].is_anomalous = Some(FALSE)
    /\ users_stage[1].status = Some(Cancelled)
    /\ users_stage[2].status = Some(Active)

AnomalousIndexes == {i \in 1..Len(users_flagged) : users_flagged[i].is_anomalous = Some(TRUE)}

\* The index of the k-th anomalous row.
NthAnomalous(k) ==
    CHOOSE i \in AnomalousIndexes :
        Cardinality({j \in AnomalousIndexes : j < i}) = k - 1

\* C5: the log holds one entry per anomalous row and none for the others,
\* in input order, each with its row's three flags and the one fixed text.
C5_AuditLogComplete ==
    Done("anomalies_log") =>
        /\ Len(anomalies_log) = Cardinality(AnomalousIndexes)
        /\ \A k \in 1..Len(anomalies_log) :
              LET e == anomalies_log[k]
                  f == users_flagged[NthAnomalous(k)]
              IN /\ e.is_age_anomaly = f.is_age_anomaly
                 /\ e.is_identifier_anomaly = f.is_identifier_anomaly
                 /\ e.is_status_anomaly = f.is_status_anomaly
                 /\ e.anomalous_user_id = f.id_int
                 /\ e.raw_email = f.email
                 /\ e.raw_phone = f.phone
                 /\ e.remediation_action = anomalies_log[1].remediation_action
                 /\ e.remediation_action =
                       "Status changed to 'cancelled' due to validation failure"

\* C5 witness: a clean row, then an age-anomalous row with a valid status;
\* the log holds the second row only.
C5_Witness ==
    /\ Done("anomalies_log")
    /\ Len(users_flagged) = 2
    /\ users_flagged[1].is_anomalous = Some(FALSE)
    /\ users_flagged[2].is_age_anomaly = Some(TRUE)
    /\ users_flagged[2].is_status_anomaly = Some(FALSE)
    /\ Len(anomalies_log) = 1
    /\ anomalies_log[1].is_age_anomaly = Some(TRUE)

\* (month, day) pairs in lexicographic order.
PairLess(a, b) == a[1] < b[1] \/ (a[1] = b[1] /\ a[2] < b[2])

\* Whole years from birth to creation.
AgeInYears(birth, created) ==
    (created.year - birth.year)
    - (IF PairLess(<<created.month, created.day>>, <<birth.month, birth.day>>)
       THEN 1 ELSE 0)

AgeAnomalous(birth_date_dt, created_at_dt) ==
    \/ IsNull(birth_date_dt)
    \/ IsNull(created_at_dt)
    \/ AgeInYears(Get(birth_date_dt), Get(created_at_dt)) < 18

\* C6: a row is age-anomalous exactly when a date is missing or the age in
\* whole years at creation is below 18; born 06/15/2000, a row created
\* 06/15/2018 is not age-anomalous and one created 06/14/2018 is.
C6_AgePredicate ==
    Done("users_flagged") =>
        \A i \in 1..Len(users_flagged) :
            LET f == users_flagged[i]
            IN /\ f.is_age_anomaly =
                     Some(AgeAnomalous(f.birth_date_dt, f.created_at_dt))
               /\ (f.birth_date = Some(<<"0", "6", "/", "1", "5", "/", "2", "0", "0", "0">>) /\ f.created_at = Some(<<"0", "6", "/", "1", "5", "/", "2", "0", "1", "8">>))
                     => f.is_age_anomaly = Some(FALSE)
               /\ (f.birth_date = Some(<<"0", "6", "/", "1", "5", "/", "2", "0", "0", "0">>) /\ f.created_at = Some(<<"0", "6", "/", "1", "4", "/", "2", "0", "1", "8">>))
                     => f.is_age_anomaly = Some(TRUE)

\* C6 witness: born 06/15/2000 and created on the 18th birthday, classified
\* as of age.
C6_Witness ==
    /\ Done("users_flagged")
    /\ \E i \in 1..Len(users_flagged) :
          /\ users_flagged[i].birth_date = Some(<<"0", "6", "/", "1", "5", "/", "2", "0", "0", "0">>)
          /\ users_flagged[i].created_at = Some(<<"0", "6", "/", "1", "5", "/", "2", "0", "1", "8">>)
          /\ users_flagged[i].birth_date_dt = Some([year |-> 2000, month |-> 6, day |-> 15])
          /\ users_flagged[i].is_age_anomaly = Some(FALSE)

\* The phone rule on the decimal digits of the typed value.
PhoneInvalid(phone_int) ==
    \/ IsNull(phone_int)
    \/ Get(phone_int).neg
    \/ Len(Get(phone_int).mag) # 10
    \/ Get(phone_int).mag[1] \in {0, 1}
    \/ SubSeq(Get(phone_int).mag, 1, 3) \in {<<5, 5, 5>>, <<9, 1, 1>>}

OtherIdentifiersValid(f) ==
    /\ ~IsNull(f.birth_date_dt)
    /\ f.email_stripped = strip_chars(GoodRow.email)

\* C7: a phone is invalid exactly when it is missing, outside
\* [10^9, 10^10), starts with 0 or 1, or starts with 555 or 911; a row with
\* an invalid phone is identifier-anomalous; 9999999999 is valid and
\* 15551234567, 5551234567 and 0123456789 are not.
C7_PhoneValidity ==
    Done("users_flagged") =>
        \A i \in 1..Len(users_flagged) :
            LET f == users_flagged[i]
            IN /\ PhoneInvalid(f.phone_int) => f.is_identifier_anomaly = Some(TRUE)
               /\ OtherIdentifiersValid(f)
                     => f.is_identifier_anomaly = Some(PhoneInvalid(f.phone_int))
               /\ (OtherIdentifiersValid(f) /\ f.phone = Some(<<"9", "9", "9", "9", "9", "9", "9", "9", "9", "9">>))
                     => f.is_identifier_anomaly = Some(FALSE)
               /\ f.phone \in {Some(<<"1", "5", "5", "5", "1", "2", "3", "4", "5", "6", "7">>), Some(<<"5", "5", "5", "1", "2", "3", "4", "5", "6", "7">>), Some(<<"0", "1", "2", "3", "4", "5", "6", "7", "8", "9">>)}
                     => f.is_identifier_anomaly = Some(TRUE)

\* C7 witness: the phone 9111234567, ten digits with a reserved prefix, has
\* been classified as invalid, the other identifiers being valid.
C7_Witness ==
    /\ Done("users_flagged")
    /\ \E i \in 1..Len(users_flagged) :
          /\ OtherIdentifiersValid(users_flagged[i])
          /\ users_flagged[i].phone = Some(<<"9", "1", "1", "1", "2", "3", "4", "5", "6", "7">>)
          /\ users_flagged[i].is_identifier_anomaly = Some(TRUE)

\* C8: the cleaned rows with status "active" (and no column missing), run
\* through the pipeline again, come out with status "active".
C8_RerunKeepsActive ==
    (Done("users_stage") /\ Len(fed_back) = Len(users_stage)) =>
        \A i \in 1..Len(fed_back) :
            (/\ fed_back[i].status = Some(Active)
             /\ \A c \in CleanedColumns : ~IsNull(fed_back[i][c]))
                => users_stage[i].status = Some(Active)

\* The whole string is one match of the pattern.
FullMatch(r, s) == (Len(s) + 1) \in Ends(r, s, 1)

\* The e-mail rule with the pattern spanning the whole trimmed value.
EmailInvalid(email) ==
    \/ IsNull(email)
    \/ Get(strip_chars(email)) = <<>>
    \/ ~FullMatch(EMAIL_REGEX, Get(strip_chars(email)))

\* C9: an e-mail is invalid when missing or empty after trimming, and
\* otherwise valid exactly when the whole trimmed value matches the e-mail
\* pattern; a row with an invalid e-mail is identifier-anomalous.
C9_EmailWholeMatch ==
    Done("users_flagged") =>
        \A i \in 1..Len(users_flagged) :
            LET f == users_flagged[i]
            IN /\ EmailInvalid(f.email) => f.is_identifier_anomaly = Some(TRUE)
               /\ (~IsNull(f.birth_date_dt) /\ ~PhoneInvalid(f.phone_int))
                     => f.is_identifier_anomaly = Some(EmailInvalid(f.email))

\* C10: a phone that failed coercion or the validity check is replaced by
\* the sentinel -999999999, itself invalid; a valid phone is kept.
C10_PhoneImputation ==
    Done("users_stage") =>
        \A i \in 1..Len(users_stage) :
            LET f == users_flagged[i]
                c == users_stage[i]
            IN /\ PhoneInvalid(Some(PhoneSentinel))
               /\ PhoneInvalid(f.phone_int) => c.phone = Some(PhoneSentinel)
               /\ ~PhoneInvalid(f.phone_int) => c.phone = f.phone_int

====
